---------------------------- MODULE Spec2Model ----------------------------
(***************************************************************************)
(* SOC log analyzer: the batch detector (core/detection.py) and the watch  *)
(* mode that tails a growing log file and merges each batch into the       *)
(* cumulative session map (core/watch.py).                                 *)
(*                                                                         *)
(* A log line is modelled by what the four regular expressions of          *)
(* parse_log_file can find in it: the leading token, the bracketed date,   *)
(* the status and the quoted request.  The log file is a sequence of       *)
(* lines and a file offset counts lines.                                   *)
(***************************************************************************)
EXTENDS Integers, Sequences, FiniteSets, TLC

VARIABLES
    \* ---- watch mode (LogFileHandler, watch_log_file) ----
    config,          \* the handler's config dictionary
    log_path,        \* config['log_path']: the name of the monitored file
    event_path,      \* src_path of the event the observer dispatched last
    default_wl,      \* PROJECT_ROOT/data/whitelist.txt: whether it exists, its entries
    file,            \* content of the monitored log file
    monitor,         \* "IDLE" | "WATCHING" | "STOPPING" | "STOPPED"
    pc,              \* position of the observer thread inside _process_changes,
                     \* "dead" once an exception has left the handler
    active_cycles,   \* how many _process_changes calls are in progress
    reports,         \* how many times generate_reports was called
    current_size,    \* local of _process_changes
    new_lines,       \* local of _process_changes
    last_position,   \* self.last_position
    all_suspicious,  \* self.all_suspicious
    \* ---- history of the watch run ----
    last_event,      \* the step taken last and how it ended
    start_size,      \* size of the log file when the observer was started
    entry_offset,    \* self.last_position when the observer was started
    rotated,         \* the log file was replaced at least once
    rotation_pending, \* a rotation was detected and no read has completed since
    replaced,        \* the log file was replaced and the handler has neither
                     \* stat'ed nor read the new file yet
    written,         \* how many lines were ever written to the log file
    covered,         \* the batches handed to _analyze_new_lines before any rotation
    \* ---- one batch (one parse_log_file call), line by line ----
    b_config,        \* arguments of the call
    b_whitelist,     \* the whitelist the call loaded
    b_pc,            \* "load" | "loop" | "done" | "raised"
    ip_activity,     \* the per-address map of the call
    ingested,        \* the lines the loop has consumed so far
    suspicious_ips,  \* the returned map
    \* ---- one activity record through the classifier and the scorer ----
    c_record,        \* the record before lines 92-93
    c_scored,        \* the record after lines 92-93
    c_rescored,      \* what a second calculate_threat_score call returns
    c_pc             \* "new" | "scored" | "rescored"

vars == << config, default_wl, file, monitor, pc, current_size, new_lines,
           last_position, all_suspicious, last_event, start_size, entry_offset,
           rotated, rotation_pending, written, covered, b_config, b_whitelist, b_pc, ip_activity,
           ingested, suspicious_ips, active_cycles, reports, c_record, c_scored,
           c_rescored, c_pc, replaced, log_path, event_path >>

watch_vars == << config, default_wl, file, monitor, pc, current_size, new_lines,
                 last_position, all_suspicious, last_event, start_size,
                 entry_offset, rotated, rotation_pending, written, covered,
                 active_cycles, reports, replaced, log_path, event_path >>

batch_vars == << b_config, b_whitelist, b_pc, ip_activity, ingested,
                 suspicious_ips >>

classify_vars == << c_record, c_scored, c_rescored, c_pc >>

-----------------------------------------------------------------------------
(* Bounds of the model *)

\* how many lines are ever written to the monitored log file
MaxWritten == 3
\* longest batch ingested line by line
MaxBatch == 3

-----------------------------------------------------------------------------
(* Program constants: core/config.py *)

BruteThreshold == 10
BruteWeight == 15
PortScanRequestThreshold == 50
PortScanUniquePathsThreshold == 20
PortScanWeight == 10
SqlInjectionWeight == 30
DdosRequestThreshold == 500
DdosWeight == 40
ScoreCap == 100

BruteStatusCodes == {"401", "403"}
PortScanStatusCodes == {"404", "400"}

\* STATUS_SCORES.get(code, 0)
StatusScore(code) ==
    CASE code = "403" -> 3
      [] code = "401" -> 2
      [] code = "404" -> 1
      [] code = "400" -> 1
      [] OTHER -> 0

-----------------------------------------------------------------------------
(* Log lines *)

\* what re.search(date_pattern) and strptime make of a line
NoDate == -1        \* no [..] group: re.search returns None
BadDate == -2       \* a [..] group strptime rejects
BlankDate == -3     \* a [..] group of blanks: date_str.split() is empty
NoStatus == "-"     \* status_pattern does not match
NoRequest == "-"    \* request_pattern does not match
NoneTime == -1      \* first_seen / last_seen of a fresh record

SecondsPerHour == 3600

\* request signatures "METHOD PATH" used by the model
LoginRequest == "POST /login"
PlainRequest == "GET /index.html"
SqlRequest == "GET /item?id=1=1"
SqlUnionRequest == "GET /q?x=UNION SELECT"

\* any(path in req for path in brute_config['paths'])
HasBrutePath(req) == req = LoginRequest
\* any(re.search(pattern, req, re.IGNORECASE) for pattern in patterns)
HasSqlPattern(req) == req \in {SqlRequest, SqlUnionRequest}

ExternalIp == "8.8.8.8"
PrivateIp == "10.0.0.5"

Line(ip, date, status, req) ==
    [ip |-> ip, date |-> date, status |-> status, req |-> req]

\* a line that is empty after strip()
EmptyLine == Line("", NoDate, NoStatus, NoRequest)


-----------------------------------------------------------------------------
(* Addresses: core/utils.py *)

ZoneIp == "fe80::1%eth0"
ZonePrivateIp == "10.0.0.5%eth0"

\* the tokens ipaddress.ip_address accepts
ValidIps == {ExternalIp, PrivateIp, "fe80::1", ZoneIp}
\* ip_address(x).is_private
PrivateIps == {PrivateIp, "fe80::1", ZoneIp}

\* ip_str.split('%')[0].split(' ')[0]
CleanIp(ip) ==
    IF ip = ZoneIp THEN "fe80::1"
    ELSE IF ip = ZonePrivateIp THEN PrivateIp
    ELSE ip

CidrEntry == "10.0.0.0/8"
LinkLocalEntry == "fe80::/10"

\* ip in ip_network(entry) for a CIDR entry, ip == ip_address(entry) otherwise
EntryCovers(entry, ip) ==
    CASE entry = CidrEntry -> ip = PrivateIp
      [] entry = LinkLocalEntry -> ip \in {"fe80::1", ZoneIp}
      [] OTHER -> ip = entry

IsInternalIp(ip_str) == ip_str \in ValidIps /\ ip_str \in PrivateIps

IsWhitelisted(ip_str, whitelist) ==
    LET clean_ip == CleanIp(ip_str)
    IN  /\ clean_ip \in ValidIps
        /\ \E entry \in whitelist : EntryCovers(entry, clean_ip)

\* The whitelist_file argument: None, a path, or (from the CLI and the watch
\* handler) the set of entries the CLI has already loaded.
NoWhitelistArg == [kind |-> "none", exists |-> FALSE, entries |-> {}]
PathArg(exists, entries) == [kind |-> "path", exists |-> exists, entries |-> entries]
SetArg(entries) == [kind |-> "set", exists |-> FALSE, entries |-> entries]

\* load_whitelist: `file_path or default` takes the default file for None and
\* for an empty set; open() of a non-empty set raises TypeError, which the
\* FileNotFoundError handler does not catch.
LoadWhitelist(file_path, default_file) ==
    CASE file_path.kind = "set" /\ file_path.entries # {} ->
            [raised |-> TRUE, entries |-> {}]
      [] file_path.kind = "path" ->
            [raised |-> FALSE,
             entries |-> IF file_path.exists THEN file_path.entries ELSE {}]
      [] OTHER ->
            [raised |-> FALSE,
             entries |-> IF default_file.exists THEN default_file.entries ELSE {}]

-----------------------------------------------------------------------------
(* One batch: core/detection.py *)

EmptyMap == [x \in {} |-> 0]

\* defaultdict(int)[k] += 1
Bump(m, k) ==
    [x \in (DOMAIN m) \cup {k} |->
        IF x = k THEN (IF k \in DOMAIN m THEN m[k] ELSE 0) + 1 ELSE m[x]]

RECURSIVE SumOver(_, _)
SumOver(m, keys) ==
    IF keys = {} THEN 0
    ELSE LET k == CHOOSE x \in keys : TRUE
         IN  m[k] + SumOver(m, keys \ {k})

\* sum(m.values())
SumMap(m) == SumOver(m, DOMAIN m)

\* sum(m.get(code, 0) for code in codes)
SumCodes(m, codes) == SumOver(m, codes \cap DOMAIN m)

\* the record the defaultdict factory builds
NewRecord ==
    [count |-> 0, status_codes |-> EmptyMap, requests |-> EmptyMap,
     first_seen |-> NoneTime, last_seen |-> NoneTime, user_agents |-> {}]

\* What the loop body does with one line, in the order of the code:
\* the whitelist and internal filters run before the date, the status and the
\* request are extracted.
LineOutcome(line, cfg, whitelist) ==
    CASE line = EmptyLine -> "empty"
      [] line # EmptyLine /\ cfg.ignore_whitelisted
            /\ IsWhitelisted(line.ip, whitelist) -> "whitelisted"
      [] OTHER ->
           IF cfg.ignore_internal /\ IsInternalIp(line.ip) THEN "internal"
           ELSE IF line.date = NoDate THEN "parse_error"
           ELSE IF line.status = NoStatus THEN "parse_error"
           ELSE IF line.req = NoRequest THEN "no_request"
           ELSE IF line.date = BlankDate THEN "index_error"
           ELSE IF line.date = BadDate THEN "parse_error"
           ELSE "accepted"

\* a variant that keeps the timestamp of the first line it saw
FirstSeenOfFirstLine(first_seen, log_date) ==
    IF first_seen = NoneTime THEN log_date ELSE first_seen

FirstSeenAfter(first_seen, log_date) ==
    IF first_seen = NoneTime \/ log_date < first_seen THEN log_date ELSE first_seen

LastSeenAfter(last_seen, log_date) ==
    IF last_seen = NoneTime \/ log_date > last_seen THEN log_date ELSE last_seen

\* a variant that forgets the requests histogram
UpdateRecordWithoutRequests(ip_data, line) ==
    [ip_data EXCEPT
        !.count = @ + 1,
        !.status_codes = Bump(@, line.status),
        !.first_seen = FirstSeenAfter(@, line.date),
        !.last_seen = LastSeenAfter(@, line.date)]

UpdateRecord(ip_data, line) ==
    [ip_data EXCEPT
        !.count = @ + 1,
        !.status_codes = Bump(@, line.status),
        !.requests = Bump(@, line.req),
        !.first_seen = FirstSeenAfter(@, line.date),
        !.last_seen = LastSeenAfter(@, line.date)]

\* a variant that looks the record up before the timestamp is converted
IngestLineCreatingFirst(activity, line, cfg, whitelist) ==
    IF LineOutcome(line, cfg, whitelist) \in {"accepted", "parse_error"}
    THEN LET ip_data == IF line.ip \in DOMAIN activity
                        THEN activity[line.ip] ELSE NewRecord
         IN  [ip \in (DOMAIN activity) \cup {line.ip} |->
                 IF ip # line.ip THEN activity[ip]
                 ELSE IF LineOutcome(line, cfg, whitelist) = "accepted"
                      THEN UpdateRecord(ip_data, line)
                      ELSE ip_data]
    ELSE activity

\* ip_activity after the loop body ran on one line
IngestLine(activity, line, cfg, whitelist) ==
    IF LineOutcome(line, cfg, whitelist) = "accepted"
    THEN LET ip_data == IF line.ip \in DOMAIN activity
                        THEN activity[line.ip] ELSE NewRecord
         IN  [ip \in (DOMAIN activity) \cup {line.ip} |->
                 IF ip = line.ip THEN UpdateRecord(ip_data, line)
                 ELSE activity[ip]]
    ELSE activity


\* a finding: the kind and the numbers its detail string cites
Threat(kind, a, b) == [kind |-> kind, a |-> a, b |-> b]

ThreatWeight(kind) ==
    CASE kind = "BRUTE_FORCE" -> BruteWeight
      [] kind = "PORT_SCAN" -> PortScanWeight
      [] kind = "SQL_INJECTION" -> SqlInjectionWeight
      [] kind = "DDoS" -> DdosWeight

\* a variant whose brute-force test wants more failures than the threshold
DetectSpecificThreatsStrict(ip_data) ==
    LET auth_failures == SumCodes(ip_data.status_codes, BruteStatusCodes)
        brute == IF /\ \E req \in DOMAIN ip_data.requests : HasBrutePath(req)
                    /\ auth_failures > BruteThreshold
                 THEN << Threat("BRUTE_FORCE", auth_failures, 0) >>
                 ELSE << >>
        scan_attempts == SumCodes(ip_data.status_codes, PortScanStatusCodes)
        unique_paths == Cardinality(DOMAIN ip_data.requests)
        scan == IF \/ scan_attempts >= PortScanRequestThreshold
                   \/ unique_paths >= PortScanUniquePathsThreshold
                THEN << Threat("PORT_SCAN", scan_attempts, unique_paths) >>
                ELSE << >>
    IN  brute \o scan

\* a variant whose port-scan test wants both thresholds reached
DetectSpecificThreatsBoth(ip_data) ==
    LET auth_failures == SumCodes(ip_data.status_codes, BruteStatusCodes)
        brute == IF /\ \E req \in DOMAIN ip_data.requests : HasBrutePath(req)
                    /\ auth_failures >= BruteThreshold
                 THEN << Threat("BRUTE_FORCE", auth_failures, 0) >>
                 ELSE << >>
        scan_attempts == SumCodes(ip_data.status_codes, PortScanStatusCodes)
        unique_paths == Cardinality(DOMAIN ip_data.requests)
        scan == IF /\ scan_attempts >= PortScanRequestThreshold
                   /\ unique_paths >= PortScanUniquePathsThreshold
                THEN << Threat("PORT_SCAN", scan_attempts, unique_paths) >>
                ELSE << >>
    IN  brute \o scan

DetectSpecificThreats(ip_data) ==
    LET auth_failures == SumCodes(ip_data.status_codes, BruteStatusCodes)
        brute == IF /\ \E req \in DOMAIN ip_data.requests : HasBrutePath(req)
                    /\ auth_failures >= BruteThreshold
                 THEN << Threat("BRUTE_FORCE", auth_failures, 0) >>
                 ELSE << >>
        scan_attempts == SumCodes(ip_data.status_codes, PortScanStatusCodes)
        unique_paths == Cardinality(DOMAIN ip_data.requests)
        scan == IF \/ scan_attempts >= PortScanRequestThreshold
                   \/ unique_paths >= PortScanUniquePathsThreshold
                THEN << Threat("PORT_SCAN", scan_attempts, unique_paths) >>
                ELSE << >>
    IN  brute \o scan

DetectSqlInjection(requests_list) ==
    \E request \in requests_list : HasSqlPattern(request)

\* count / seconds * 60 > 500 in double arithmetic.  The quotient count/seconds
\* is rounded; when count * 60 = 500 * seconds (count/seconds = 25/3) it is
\* rounded up and the product is 500.00000000000006, so the comparison holds.
RateExceeds(count, seconds) == count * 60 >= DdosRequestThreshold * seconds

DetectDdos(ip_data) ==
    IF ip_data.first_seen = ip_data.last_seen THEN FALSE
    ELSE RateExceeds(ip_data.count, ip_data.last_seen - ip_data.first_seen)

RECURSIVE WeightSum(_)
WeightSum(threats) ==
    IF threats = << >> THEN 0
    ELSE ThreatWeight(Head(threats).kind) + WeightSum(Tail(threats))

RECURSIVE StatusSum(_, _)
StatusSum(status_codes, keys) ==
    IF keys = {} THEN 0
    ELSE LET code == CHOOSE x \in keys : TRUE
         IN  StatusScore(code) * status_codes[code]
             + StatusSum(status_codes, keys \ {code})

Min(a, b) == IF a <= b THEN a ELSE b
Max(a, b) == IF a >= b THEN a ELSE b

\* a variant without the cap
CalculateThreatScoreUncapped(data) ==
    LET sqli == DetectSqlInjection(DOMAIN data.requests)
        ddos == DetectDdos(data)
        score == WeightSum(data.threats)
                 + StatusSum(data.status_codes, DOMAIN data.status_codes)
                 + (IF sqli THEN SqlInjectionWeight ELSE 0)
                 + (IF ddos THEN DdosWeight ELSE 0)
    IN  [threat_score |-> score,
         threats |-> data.threats
                     \o (IF sqli THEN << Threat("SQL_INJECTION", 0, 0) >> ELSE << >>)
                     \o (IF ddos THEN << Threat("DDoS", data.count, 0) >> ELSE << >>)]

\* a variant that tests the request rate before the SQL patterns
CalculateThreatScoreDdosFirst(data) ==
    LET sqli == DetectSqlInjection(DOMAIN data.requests)
        ddos == DetectDdos(data)
        score == WeightSum(data.threats)
                 + StatusSum(data.status_codes, DOMAIN data.status_codes)
                 + (IF sqli THEN SqlInjectionWeight ELSE 0)
                 + (IF ddos THEN DdosWeight ELSE 0)
    IN  [threat_score |-> Min(score, ScoreCap),
         threats |-> data.threats
                     \o (IF ddos THEN << Threat("DDoS", data.count, 0) >> ELSE << >>)
                     \o (IF sqli THEN << Threat("SQL_INJECTION", 0, 0) >> ELSE << >>)]

\* calculate_threat_score: the returned score and data['threats'] as the call
\* leaves it (the function appends the SQL_INJECTION and DDoS findings)
CalculateThreatScore(data) ==
    LET sqli == DetectSqlInjection(DOMAIN data.requests)
        ddos == DetectDdos(data)
        score == WeightSum(data.threats)
                 + StatusSum(data.status_codes, DOMAIN data.status_codes)
                 + (IF sqli THEN SqlInjectionWeight ELSE 0)
                 + (IF ddos THEN DdosWeight ELSE 0)
    IN  [threat_score |-> Min(score, ScoreCap),
         threats |-> data.threats
                     \o (IF sqli THEN << Threat("SQL_INJECTION", 0, 0) >> ELSE << >>)
                     \o (IF ddos THEN << Threat("DDoS", data.count, 0) >> ELSE << >>)]

\* a variant that lets in an address with exactly threshold lines
WindowConditionAtLeast(data, cfg) ==
    /\ data.last_seen - data.first_seen <= cfg.time_window * SecondsPerHour
    /\ data.count >= cfg.threshold

\* duration <= timedelta(hours=time_window_hours) and data['count'] > threshold
WindowCondition(data, cfg) ==
    /\ data.last_seen - data.first_seen <= cfg.time_window * SecondsPerHour
    /\ data.count > cfg.threshold

\* the record stored in suspicious_ips
ScoredRecord(data) ==
    LET with_threats ==
            [count |-> data.count, status_codes |-> data.status_codes,
             requests |-> data.requests, first_seen |-> data.first_seen,
             last_seen |-> data.last_seen, user_agents |-> data.user_agents,
             threats |-> DetectSpecificThreats(data), threat_score |-> 0]
        scored == CalculateThreatScore(with_threats)
    IN  [with_threats EXCEPT !.threats = scored.threats,
                             !.threat_score = scored.threat_score]

\* the threat detection phase
DetectionPhase(activity, cfg) ==
    [ip \in {i \in DOMAIN activity : WindowCondition(activity[i], cfg)} |->
        ScoredRecord(activity[ip])]

\* the loop over the lines: the map it builds and whether an exception the
\* handler does not catch (IndexError) left it
RECURSIVE IngestAll(_, _, _, _)
IngestAll(activity, lines, cfg, whitelist) ==
    IF lines = << >> THEN [raised |-> FALSE, activity |-> activity]
    ELSE IF LineOutcome(Head(lines), cfg, whitelist) = "index_error"
         THEN [raised |-> TRUE, activity |-> activity]
         ELSE IngestAll(IngestLine(activity, Head(lines), cfg, whitelist),
                        Tail(lines), cfg, whitelist)

\* parse_log_file over the lines of a file
ParseLogFile(lines, cfg, default_file) ==
    LET loaded == IF cfg.ignore_whitelisted
                  THEN LoadWhitelist(cfg.whitelist, default_file)
                  ELSE [raised |-> FALSE, entries |-> {}]
        looped == IngestAll(EmptyMap, lines, cfg, loaded.entries)
    IN  IF loaded.raised \/ looped.raised
        THEN [raised |-> TRUE, suspicious |-> EmptyMap]
        ELSE [raised |-> FALSE,
              suspicious |-> DetectionPhase(looped.activity, cfg)]


-----------------------------------------------------------------------------
(* The batch, line by line *)

Config(threshold, ignore_internal, ignore_whitelisted, whitelist) ==
    [threshold |-> threshold, time_window |-> 1,
     ignore_internal |-> ignore_internal,
     ignore_whitelisted |-> ignore_whitelisted, whitelist |-> whitelist]

NoDefaultFile == [exists |-> FALSE, entries |-> {}]
DefaultFileWithCidr == [exists |-> TRUE, entries |-> {CidrEntry}]

\* cli.py lines 31-39: the CLI loads the whitelist itself and passes the set
\* it got as whitelist_file
CliConfig(threshold, ignore_internal, no_whitelist, whitelist_arg, default_file) ==
    Config(threshold, ignore_internal, ~no_whitelist,
           SetArg(IF no_whitelist THEN {}
                  ELSE LoadWhitelist(whitelist_arg, default_file).entries))

\* the calls of parse_log_file the batch specification starts from
BatchConfigs ==
    { Config(0, FALSE, FALSE, NoWhitelistArg),
      Config(1, TRUE, FALSE, NoWhitelistArg),
      Config(0, FALSE, TRUE, PathArg(TRUE, {CidrEntry})),
      Config(0, FALSE, TRUE, SetArg({CidrEntry})),
      CliConfig(0, FALSE, FALSE, PathArg(FALSE, {}), NoDefaultFile) }

\* the lines a batch is built from
BatchLines ==
    { Line(ExternalIp, 3600, "403", LoginRequest),
      Line(ExternalIp, 0, "200", PlainRequest),
      Line(ExternalIp, 3601, "404", SqlRequest),
      Line(PrivateIp, 1, "401", PlainRequest),
      Line(ExternalIp, NoDate, "200", PlainRequest),
      Line(PrivateIp, BadDate, "200", PlainRequest),
      Line(ExternalIp, BlankDate, "200", PlainRequest),
      Line(ExternalIp, 0, NoStatus, PlainRequest),
      Line(ExternalIp, 0, "400", NoRequest),
      Line(ZoneIp, 2, "200", PlainRequest),
      Line(ZonePrivateIp, 2, "200", PlainRequest),
      EmptyLine }

\* line 22: the whitelist is loaded before the file is opened
LoadStep ==
    /\ b_pc = "load"
    /\ LET loaded == IF b_config.ignore_whitelisted
                     THEN LoadWhitelist(b_config.whitelist, default_wl)
                     ELSE [raised |-> FALSE, entries |-> {}]
       IN  /\ b_whitelist' = loaded.entries
           /\ b_pc' = IF loaded.raised THEN "raised" ELSE "loop"
    /\ UNCHANGED << b_config, ip_activity, ingested, suspicious_ips >>
    /\ UNCHANGED << watch_vars, classify_vars >>

\* lines 41-83: one turn of the loop
IngestStep(line) ==
    /\ b_pc = "loop"
    /\ Len(ingested) < MaxBatch
    /\ ingested' = Append(ingested, line)
    /\ ip_activity' = IngestLine(ip_activity, line, b_config, b_whitelist)
    /\ b_pc' = IF LineOutcome(line, b_config, b_whitelist) = "index_error"
               THEN "raised" ELSE "loop"
    /\ UNCHANGED << b_config, b_whitelist, suspicious_ips >>
    /\ UNCHANGED << watch_vars, classify_vars >>

\* lines 85-96: end of file, the detection phase
DetectStep ==
    /\ b_pc = "loop"
    /\ suspicious_ips' = DetectionPhase(ip_activity, b_config)
    /\ b_pc' = "done"
    /\ UNCHANGED << b_config, b_whitelist, ip_activity, ingested >>
    /\ UNCHANGED << watch_vars, classify_vars >>


-----------------------------------------------------------------------------
(* One activity record through lines 92-93 of parse_log_file *)

\* twenty request signatures without a brute-force path or an SQL pattern
ScanPathSeq ==
    << "GET /a01", "GET /a02", "GET /a03", "GET /a04", "GET /a05",
       "GET /a06", "GET /a07", "GET /a08", "GET /a09", "GET /a10",
       "GET /a11", "GET /a12", "GET /a13", "GET /a14", "GET /a15",
       "GET /a16", "GET /a17", "GET /a18", "GET /a19", "GET /a20" >>

ScanPathSet(n) == { ScanPathSeq[i] : i \in 1..n }

\* the request signatures of the records
RequestSets ==
    { {PlainRequest}, {LoginRequest}, {LoginRequest, PlainRequest},
      {SqlRequest, PlainRequest}, {SqlRequest, SqlUnionRequest, LoginRequest},
      ScanPathSet(19), ScanPathSet(20),
      ScanPathSet(18) \cup {LoginRequest}, ScanPathSet(19) \cup {LoginRequest} }

\* how many lines of the address carried each status
OkCounts == {0, 1, 15}
UnauthorizedCounts == {0, 1, 6}
ForbiddenCounts == {0, 5, 9, 10, 34}
NotFoundCounts == {0, 49, 50}
BadRequestCounts == {0, 1}

\* seconds between the first and the last line of the address
Spans == {0, 1, 3, 120, 3600}

\* data['status_codes'] after the loop: a key for every status that occurred
StatusHistogram(n200, n401, n403, n404, n400) ==
    LET all == ("200" :> n200) @@ ("401" :> n401) @@ ("403" :> n403)
               @@ ("404" :> n404) @@ ("400" :> n400)
    IN  [code \in {c \in DOMAIN all : all[c] > 0} |-> all[code]]

\* data['requests'] after the loop: every signature occurred, count lines in all
RequestHistogram(paths, count) ==
    LET main == CHOOSE r \in paths : TRUE
    IN  [r \in paths |-> IF r = main THEN count - (Cardinality(paths) - 1) ELSE 1]

\* the record ip_activity holds for an address after the loop
ActivityRecord(status_codes, paths, span) ==
    [count |-> SumMap(status_codes), status_codes |-> status_codes,
     requests |-> RequestHistogram(paths, SumMap(status_codes)),
     first_seen |-> 0, last_seen |-> span, user_agents |-> {}]

ClassifyRecords ==
    { ActivityRecord(StatusHistogram(n200, n401, n403, n404, n400), paths, span) :
        n200 \in OkCounts, n401 \in UnauthorizedCounts, n403 \in ForbiddenCounts,
        n404 \in NotFoundCounts, n400 \in BadRequestCounts,
        paths \in RequestSets, span \in Spans }

\* a record the loop can have built: as many lines as signatures at least,
\* and two lines at least when first and last line differ in time
ReachableRecord(data) ==
    /\ data.count >= Cardinality(DOMAIN data.requests)
    /\ data.last_seen > data.first_seen => data.count >= 2

\* no score computed yet
NoScore == [threat_score |-> 0, threats |-> << >>]

\* the configuration of the detection phase the record goes through
ClassifyConfig == Config(0, FALSE, FALSE, NoWhitelistArg)

\* lines 91-94: the record passes the window test, gets its findings and
\* its score
ClassifyStep ==
    /\ c_pc = "new"
    /\ WindowCondition(c_record, ClassifyConfig)
    /\ c_scored' = ScoredRecord(c_record)
    /\ c_pc' = "scored"
    /\ UNCHANGED << c_record, c_rescored >>
    /\ UNCHANGED << watch_vars, batch_vars >>

\* calculate_threat_score applied once more to the stored record
RescoreStep ==
    /\ c_pc = "scored"
    /\ c_rescored' = CalculateThreatScore(c_scored)
    /\ c_pc' = "rescored"
    /\ UNCHANGED << c_record, c_scored >>
    /\ UNCHANGED << watch_vars, batch_vars >>

-----------------------------------------------------------------------------
(* Watch mode: core/watch.py *)

\* self.last_position = 0
InitialPosition == 0

\* a variant that overwrites the entry with the batch's record
MergeRecordOverwriting(existing, data) == data

\* a variant that keeps the score of the latest batch
MergeRecordLatestScore(existing, data) ==
    LET existing_threats == {existing.threats[i].kind : i \in DOMAIN existing.threats}
        NotYetPresent(threat) == threat.kind \notin existing_threats
    IN  [existing EXCEPT
            !.count = @ + data.count,
            !.threat_score = data.threat_score,
            !.threats = @ \o SelectSeq(data.threats, NotYetPresent)]

\* a variant that appends every finding of the batch
MergeRecordAppendingAll(existing, data) ==
    [existing EXCEPT
        !.count = @ + data.count,
        !.threat_score = Max(@, data.threat_score),
        !.threats = @ \o data.threats]

\* a variant that moves last_seen forward and takes the latest detail of a kind
MergeRecordRefreshing(existing, data) ==
    LET existing_threats == {existing.threats[i].kind : i \in DOMAIN existing.threats}
        NotYetPresent(threat) == threat.kind \notin existing_threats
        Latest(threat) ==
            IF \E i \in DOMAIN data.threats : data.threats[i].kind = threat.kind
            THEN data.threats[CHOOSE i \in DOMAIN data.threats :
                                 data.threats[i].kind = threat.kind]
            ELSE threat
    IN  [existing EXCEPT
            !.count = @ + data.count,
            !.threat_score = Max(@, data.threat_score),
            !.last_seen = Max(@, data.last_seen),
            !.threats = [i \in DOMAIN @ |-> Latest(@[i])]
                            \o SelectSeq(data.threats, NotYetPresent)]

\* lines 119-129: an address already in the session
MergeRecord(existing, data) ==
    LET existing_threats == {existing.threats[i].kind : i \in DOMAIN existing.threats}
        NotYetPresent(threat) == threat.kind \notin existing_threats
    IN  [existing EXCEPT
            !.count = @ + data.count,
            !.threat_score = Max(@, data.threat_score),
            !.threats = @ \o SelectSeq(data.threats, NotYetPresent)]

\* a variant that keeps the addresses of the latest batch only
UpdateSuspiciousIpsReplacing(session, new_suspicious) == new_suspicious

\* _update_suspicious_ips
UpdateSuspiciousIps(session, new_suspicious) ==
    [ip \in (DOMAIN session) \cup (DOMAIN new_suspicious) |->
        IF ip \in DOMAIN new_suspicious
        THEN IF ip \in DOMAIN session
             THEN MergeRecord(session[ip], new_suspicious[ip])
             ELSE new_suspicious[ip]
        ELSE session[ip]]

\* a variant without the rotation check
PositionWithoutRotationCheck(size, position) == position

\* lines 55-57: the rotation check
PositionAfterRotationCheck(size, position) ==
    IF size < position THEN 0 ELSE position

\* a variant that also reads when nothing was appended
GrowthOrEqualDetected(size, position) == size >= position

\* line 59
GrowthDetected(size, position) == size > position

\* a variant that reads the file from its start
ReadWholeFile(content, position) == content

\* a line written in two pieces: what the patterns of parse_log_file find in
\* '8.8.8.8 - - [..:00:00:00 +0000] "POST /lo' and in 'gin HTTP/1.1" 403 12'
HeadFragment == Line(ExternalIp, 0, NoStatus, NoRequest)
TailFragment == Line("gin", NoDate, "403", NoRequest)
SplitLine == Line(ExternalIp, 0, "403", LoginRequest)

\* readlines() cuts at the newlines: two pieces read in one call are one line,
\* a piece at the end of the file without its newline is returned as it is
RECURSIVE JoinFragments(_)
JoinFragments(pieces) ==
    IF Len(pieces) < 2 THEN pieces
    ELSE IF pieces[1] = HeadFragment /\ pieces[2] = TailFragment
         THEN << SplitLine >> \o JoinFragments(SubSeq(pieces, 3, Len(pieces)))
         ELSE << pieces[1] >> \o JoinFragments(Tail(pieces))

\* lines 62-63: f.seek(self.last_position); f.readlines()
ReadLines(content, position) ==
    JoinFragments(SubSeq(content, position + 1, Len(content)))

\* a variant that does not store f.tell()
PositionNotAdvanced(content, position) == position

\* line 64: f.tell() after readlines(); a seek past the end stays where it is
PositionAfterRead(content, position) == Max(Len(content), position)

\* a variant that stores the end of file before reading
PositionAdvancedBeforeRead(content, position) == Max(Len(content), position)

\* line 64 is not reached when open() or readlines() raises
PositionAfterFailedRead(content, position) == position

\* the configurations watch_log_file is started with (the whitelist is the
\* set the CLI loaded)
WatchConfigs ==
    { Config(0, FALSE, FALSE, SetArg({})),
      Config(0, FALSE, TRUE, SetArg({CidrEntry})) }

\* the lines written to the monitored file
WatchLines ==
    { Line(ExternalIp, 0, "403", LoginRequest),
      Line(ExternalIp, 1, "200", SqlRequest),
      Line(PrivateIp, 3601, "404", PlainRequest),
      Line(ExternalIp, BlankDate, "200", PlainRequest) }

\* what the log file holds when the handler is constructed
InitialFiles == { << >> } \cup { << l >> : l \in WatchLines }

\* the web server appends a line
AppendLine(line) ==
    /\ written < MaxWritten
    /\ file' = Append(file, line)
    /\ written' = written + 1
    /\ last_event' = "append"
    /\ UNCHANGED << replaced, event_path, config, log_path, default_wl, monitor, pc, current_size, new_lines,
                    last_position, all_suspicious, start_size, entry_offset,
                    rotated, rotation_pending, covered, active_cycles, reports >>
    /\ UNCHANGED << batch_vars, classify_vars >>

\* log rotation: the path now names a fresh, empty file
Rotate ==
    /\ file # << >>
    /\ file' = << >>
    /\ rotated' = TRUE
    /\ replaced' = TRUE
    /\ last_event' = "rotate"
    /\ UNCHANGED << event_path, config, log_path, default_wl, monitor, pc, current_size, new_lines,
                    last_position, all_suspicious, start_size, entry_offset,
                    rotation_pending, written, covered, active_cycles, reports >>
    /\ UNCHANGED << batch_vars, classify_vars >>

\* watch_log_file line 180: observer.start()
ObserverStart ==
    /\ monitor = "IDLE"
    /\ monitor' = "WATCHING"
    /\ start_size' = Len(file)
    /\ entry_offset' = last_position
    /\ last_event' = "start"
    /\ UNCHANGED << replaced, event_path, config, log_path, default_wl, file, pc, current_size, new_lines,
                    last_position, all_suspicious, rotated, rotation_pending,
                    written, covered, active_cycles, reports >>
    /\ UNCHANGED << batch_vars, classify_vars >>

\* the exceptions the steps of a cycle raise
ExceptionKinds == {"OSError", "TypeError", "IndexError"}

\* a variant with the narrow handler of parse_log_file's loop
CatchesValueErrorOnly(kind) == kind = "ValueError"

\* line 70: except Exception
ProcessChangesCatches(kind) == kind \in ExceptionKinds

\* line 103: except Exception
AnalyzeCatches(kind) == kind \in ExceptionKinds

\* a variant that hands every event to a handler call of its own
DispatchAlways(active) == TRUE

\* lines 38-44 and 168-180: one observer with one handler; the observer
\* thread calls on_modified, which calls _process_changes and returns only
\* when the cycle is over
DispatchAllowed(active) == active = 0

\* what parse_log_file raises when it raises
ParseErrorKind(cfg, default_file) ==
    IF cfg.ignore_whitelisted /\ LoadWhitelist(cfg.whitelist, default_file).raised
    THEN "TypeError" ELSE "IndexError"

\* line 188: if event_handler.all_suspicious
ReportDue(session) == session # EmptyMap

\* on_modified for the log path, _process_changes lines 52-59: stat, the
\* rotation check and the growth check
ProcessChangesStat(stat_ok) ==
    /\ monitor = "WATCHING"
    /\ pc # "dead"
    /\ DispatchAllowed(active_cycles)
    /\ IF ~stat_ok
       THEN /\ pc' = IF ProcessChangesCatches("OSError") THEN pc ELSE "dead"
            /\ last_event' = IF ProcessChangesCatches("OSError")
                             THEN "stat_error" ELSE "uncaught"
            /\ UNCHANGED << current_size, last_position, rotation_pending,
                            active_cycles, replaced >>
       ELSE LET size == Len(file)
                position == PositionAfterRotationCheck(size, last_position)
                warned == position # last_position
            IN  /\ current_size' = size
                /\ replaced' = FALSE
                /\ last_position' = position
                /\ rotation_pending' = (rotation_pending \/ warned)
                /\ IF GrowthDetected(size, position)
                   THEN /\ pc' = "read"
                        /\ active_cycles' = active_cycles + 1
                        /\ last_event' = IF warned THEN "rotation_growth" ELSE "growth"
                   ELSE /\ pc' = "idle"
                        /\ UNCHANGED active_cycles
                        /\ last_event' = IF warned THEN "rotation_noop" ELSE "noop"
    /\ UNCHANGED << config, log_path, default_wl, file, monitor, new_lines, all_suspicious,
                    start_size, entry_offset, rotated, written, covered, reports >>
    /\ UNCHANGED << batch_vars, classify_vars >>

\* a variant that takes every event in the watched directory
EventInDirectory(path, name) == TRUE

\* line 43: event.src_path == str(self.config['log_path'])
EventForLog(path, name) == path = name

\* on_modified for a path that is not the log path: nothing happens
IgnoredEvent ==
    /\ monitor = "WATCHING"
    /\ pc # "dead"
    /\ DispatchAllowed(active_cycles)
    /\ last_event' = "ignored"
    /\ UNCHANGED << replaced, config, log_path, default_wl, file, monitor, pc,
                    current_size, new_lines, last_position, all_suspicious,
                    start_size, entry_offset, rotated, rotation_pending,
                    written, covered, active_cycles, reports >>
    /\ UNCHANGED << batch_vars, classify_vars >>

\* on_modified, lines 38-44
OnModified(path, stat_ok) ==
    /\ event_path' = path
    /\ IF EventForLog(path, log_path)
       THEN ProcessChangesStat(stat_ok)
       ELSE IgnoredEvent

\* the web server writes the first piece of a line
WriteHead ==
    /\ written < MaxWritten
    /\ IF file = << >> THEN TRUE ELSE file[Len(file)] # HeadFragment
    /\ file' = Append(file, HeadFragment)
    /\ written' = written + 1
    /\ last_event' = "append"
    /\ UNCHANGED << replaced, event_path, config, log_path, default_wl, monitor,
                    pc, current_size, new_lines, last_position, all_suspicious,
                    start_size, entry_offset, rotated, rotation_pending, covered,
                    active_cycles, reports >>
    /\ UNCHANGED << batch_vars, classify_vars >>

\* the web server writes the rest of the line and the newline
WriteTail ==
    /\ IF file = << >> THEN FALSE ELSE file[Len(file)] = HeadFragment
    /\ file' = Append(file, TailFragment)
    /\ last_event' = "append"
    /\ UNCHANGED << replaced, event_path, config, log_path, default_wl, monitor,
                    pc, current_size, new_lines, last_position, all_suspicious,
                    start_size, entry_offset, rotated, rotation_pending, written,
                    covered, active_cycles, reports >>
    /\ UNCHANGED << batch_vars, classify_vars >>

\* _process_changes lines 61-66: open, seek, readlines, tell
ProcessChangesRead(read_ok) ==
    /\ pc = "read"
    /\ IF ~read_ok
       THEN /\ last_position' = PositionAfterFailedRead(file, last_position)
            /\ new_lines' = << >>
            /\ pc' = IF ProcessChangesCatches("OSError") THEN "idle" ELSE "dead"
            /\ last_event' = IF ProcessChangesCatches("OSError")
                             THEN "read_error" ELSE "uncaught"
            /\ active_cycles' = active_cycles - 1
            /\ UNCHANGED << rotation_pending, replaced >>
       ELSE /\ new_lines' = ReadLines(file, last_position)
            /\ last_position' = PositionAfterRead(file, last_position)
            /\ pc' = IF new_lines' # << >> THEN "analyze" ELSE "idle"
            /\ last_event' = IF new_lines' # << >> THEN "read" ELSE "read_nothing"
            /\ active_cycles' = IF new_lines' # << >> THEN active_cycles
                                ELSE active_cycles - 1
            /\ rotation_pending' = FALSE
            /\ replaced' = FALSE
    /\ UNCHANGED << event_path, config, log_path, default_wl, file, monitor, current_size,
                    all_suspicious, start_size, entry_offset, rotated, written,
                    covered, reports >>
    /\ UNCHANGED << batch_vars, classify_vars >>

\* line 81: log_path.with_suffix('.tmp') replaces the last suffix of the name,
\* or adds .tmp to a name without a suffix
WithSuffixTmp(name) ==
    CASE name = "access.log" -> "access.tmp"
      [] name = "access.tmp" -> "access.tmp"
      [] name = "access" -> "access.tmp"

\* lines 84-85, 101 and 105-106: the temporary file is opened for writing
\* and unlinked at the end of the analysis, also when the analysis failed;
\* when its path is the path of the log file, the log file is gone
FileAfterAnalysis(content, name) ==
    IF WithSuffixTmp(name) = name THEN << >> ELSE content

\* _process_changes line 68, _analyze_new_lines
AnalyzeNewLines(temp_ok) ==
    /\ pc = "analyze"
    /\ covered' = IF rotated THEN covered ELSE covered \o new_lines
    /\ LET parsed == ParseLogFile(new_lines, config, default_wl)
           kind == IF ~temp_ok THEN "OSError"
                   ELSE ParseErrorKind(config, default_wl)
       IN  IF ~temp_ok \/ parsed.raised
           THEN /\ last_event' = IF AnalyzeCatches(kind) THEN "analysis_failed"
                                 ELSE IF ProcessChangesCatches(kind)
                                 THEN "cycle_failed" ELSE "uncaught"
                /\ pc' = IF AnalyzeCatches(kind) \/ ProcessChangesCatches(kind)
                         THEN "idle" ELSE "dead"
                /\ UNCHANGED all_suspicious
           ELSE IF parsed.suspicious # EmptyMap
           THEN /\ all_suspicious' =
                       UpdateSuspiciousIps(all_suspicious, parsed.suspicious)
                /\ last_event' = "merged"
                /\ pc' = "idle"
           ELSE /\ last_event' = "nothing_suspicious"
                /\ pc' = "idle"
                /\ UNCHANGED all_suspicious
    /\ new_lines' = << >>
    /\ file' = FileAfterAnalysis(file, log_path)
    /\ active_cycles' = active_cycles - 1
    /\ UNCHANGED << replaced, event_path, config, log_path, default_wl, monitor, current_size,
                    last_position, start_size, entry_offset, rotated,
                    rotation_pending, written, reports >>
    /\ UNCHANGED << batch_vars, classify_vars >>

\* watch_log_file lines 184-193: KeyboardInterrupt in the main thread;
\* observer.stop() returns at once, then the session is tested and reported
Interrupt ==
    /\ monitor = "WATCHING"
    /\ monitor' = "STOPPING"
    /\ reports' = IF ReportDue(all_suspicious) THEN reports + 1 ELSE reports
    /\ last_event' = "interrupt"
    /\ UNCHANGED << replaced, event_path, config, log_path, default_wl, file, pc, current_size, new_lines,
                    last_position, all_suspicious, start_size, entry_offset,
                    rotated, rotation_pending, written, covered, active_cycles >>
    /\ UNCHANGED << batch_vars, classify_vars >>

\* watch_log_file line 195: observer.join() returns when the observer thread
\* has left the handler
ObserverJoin ==
    /\ monitor = "STOPPING"
    /\ active_cycles = 0
    /\ monitor' = "STOPPED"
    /\ last_event' = "join"
    /\ UNCHANGED << replaced, event_path, config, log_path, default_wl, file, pc, current_size, new_lines,
                    last_position, all_suspicious, start_size, entry_offset,
                    rotated, rotation_pending, written, covered, active_cycles,
                    reports >>
    /\ UNCHANGED << batch_vars, classify_vars >>

-----------------------------------------------------------------------------
(* Specifications *)

WatchStart ==
    /\ monitor = "IDLE"
    /\ pc = "idle"
    /\ current_size = 0
    /\ new_lines = << >>
    /\ last_position = InitialPosition
    /\ all_suspicious = EmptyMap
    /\ last_event = "init"
    /\ start_size = 0
    /\ entry_offset = 0
    /\ rotated = FALSE
    /\ rotation_pending = FALSE
    /\ replaced = FALSE
    /\ event_path = log_path
    /\ written = Len(file)
    /\ covered = << >>
    /\ active_cycles = 0
    /\ reports = 0

BatchStart ==
    /\ b_whitelist = {}
    /\ b_pc = "load"
    /\ ip_activity = EmptyMap
    /\ ingested = << >>
    /\ suspicious_ips = EmptyMap

ClassifyIdle ==
    /\ c_record = NewRecord
    /\ c_scored = NewRecord
    /\ c_rescored = NoScore
    /\ c_pc = "new"

\* watch mode: the handler as watch_log_file constructs it
Init ==
    /\ config \in WatchConfigs
    /\ default_wl = NoDefaultFile
    /\ file \in InitialFiles
    /\ log_path = "access.log"
    /\ WatchStart
    /\ b_config = Config(0, FALSE, FALSE, NoWhitelistArg)
    /\ BatchStart
    /\ ClassifyIdle

Next ==
    \/ \E line \in WatchLines : AppendLine(line)
    \/ Rotate
    \/ ObserverStart
    \/ \E stat_ok \in BOOLEAN : OnModified(log_path, stat_ok)
    \/ \E read_ok \in BOOLEAN : ProcessChangesRead(read_ok)
    \/ \E temp_ok \in BOOLEAN : AnalyzeNewLines(temp_ok)
    \/ Interrupt
    \/ ObserverJoin

Spec == Init /\ [][Next]_vars

\* the names the monitored file can have
LogNames == {"access.log", "access.tmp", "access"}

\* the paths of the events of the watched directory: the log file, the
\* temporary file, another file, the directory itself
EventPaths == LogNames \cup {"other.log", "."}

\* the lines written whole to the monitored file
EventLines == { Line(ExternalIp, 1, "200", SqlRequest) }

\* watch mode seen from the directory: every file name, every event of the
\* directory, lines written in one or in two pieces
InitEvents ==
    /\ config = Config(0, FALSE, FALSE, SetArg({}))
    /\ default_wl = NoDefaultFile
    /\ file \in { << >> } \cup { << l >> : l \in EventLines }
    /\ log_path \in LogNames
    /\ WatchStart
    /\ b_config = Config(0, FALSE, FALSE, NoWhitelistArg)
    /\ BatchStart
    /\ ClassifyIdle

NextEvents ==
    \/ \E line \in EventLines : AppendLine(line)
    \/ WriteHead
    \/ WriteTail
    \/ ObserverStart
    \/ \E path \in EventPaths, stat_ok \in BOOLEAN : OnModified(path, stat_ok)
    \/ \E read_ok \in BOOLEAN : ProcessChangesRead(read_ok)
    \/ \E temp_ok \in BOOLEAN : AnalyzeNewLines(temp_ok)

SpecEvents == InitEvents /\ [][NextEvents]_vars

\* one call of parse_log_file
InitBatch ==
    /\ config = Config(0, FALSE, FALSE, SetArg({}))
    /\ default_wl \in {NoDefaultFile, DefaultFileWithCidr}
    /\ file = << >>
    /\ log_path = "access.log"
    /\ WatchStart
    /\ b_config \in BatchConfigs
    /\ BatchStart
    /\ ClassifyIdle

NextBatch ==
    \/ LoadStep
    \/ \E line \in BatchLines : IngestStep(line)
    \/ DetectStep

SpecBatch == InitBatch /\ [][NextBatch]_vars

\* one record through the classifier and the scorer
InitClassify ==
    /\ config = Config(0, FALSE, FALSE, SetArg({}))
    /\ default_wl = NoDefaultFile
    /\ file = << >>
    /\ log_path = "access.log"
    /\ WatchStart
    /\ b_config = Config(0, FALSE, FALSE, NoWhitelistArg)
    /\ BatchStart
    /\ c_record \in { data \in ClassifyRecords : ReachableRecord(data) }
    /\ c_scored = NewRecord
    /\ c_rescored = NoScore
    /\ c_pc = "new"

NextClassify ==
    \/ ClassifyStep
    \/ RescoreStep

SpecClassify == InitClassify /\ [][NextClassify]_vars

\* the records parse_log_file can return for an address, for the merge
MergeRecords ==
    { ScoredRecord(data) : data \in
        { r \in { ActivityRecord(StatusHistogram(1, 0, n403, n404, 0), paths, span) :
                    n403 \in {0, 10, 34}, n404 \in {0, 50},
                    paths \in { {PlainRequest}, {LoginRequest},
                                {SqlRequest, PlainRequest} },
                    span \in {0, 3600} } :
            ReachableRecord(r) } }

\* _analyze_new_lines line 98: parse_log_file returned a result and the
\* session has an entry
InitMerge ==
    /\ config = Config(0, FALSE, FALSE, SetArg({}))
    /\ default_wl = NoDefaultFile
    /\ file = << >>
    /\ monitor = "WATCHING"
    /\ pc = "analyze"
    /\ current_size = 0
    /\ new_lines = << >>
    /\ last_position = InitialPosition
    /\ all_suspicious \in { (ExternalIp :> r) : r \in MergeRecords }
    /\ last_event = "growth"
    /\ start_size = 0
    /\ entry_offset = 0
    /\ rotated = FALSE
    /\ rotation_pending = FALSE
    /\ replaced = FALSE
    /\ log_path = "access.log"
    /\ event_path = log_path
    /\ written = 0
    /\ covered = << >>
    /\ active_cycles = 1
    /\ reports = 0
    /\ b_config = Config(0, FALSE, FALSE, NoWhitelistArg)
    /\ b_whitelist = {}
    /\ b_pc = "done"
    /\ ip_activity = EmptyMap
    /\ ingested = << >>
    /\ suspicious_ips \in { (ip :> r) : ip \in {ExternalIp, PrivateIp},
                                         r \in MergeRecords }
    /\ ClassifyIdle

\* _analyze_new_lines lines 97-99: the result of the batch goes into the session
UpdateStep ==
    /\ pc = "analyze"
    /\ b_pc = "done"
    /\ suspicious_ips # EmptyMap
    /\ all_suspicious' = UpdateSuspiciousIps(all_suspicious, suspicious_ips)
    /\ last_event' = "merged"
    /\ pc' = "idle"
    /\ active_cycles' = active_cycles - 1
    /\ UNCHANGED << replaced, event_path, config, log_path, default_wl, file,
                    monitor, current_size, new_lines, last_position, start_size,
                    entry_offset, rotated, rotation_pending, written, covered,
                    reports >>
    /\ UNCHANGED << batch_vars, classify_vars >>

NextMerge == UpdateStep

SpecMerge == InitMerge /\ [][NextMerge]_vars


-----------------------------------------------------------------------------
(* Steps of the handler, for the properties below *)

StatEvents == {"noop", "growth", "rotation_noop", "rotation_growth"}

\* the stat of a cycle succeeded in this step
StatDone == pc = "idle" /\ last_event' \in StatEvents
\* open, seek and readlines succeeded in this step
ReadDone == pc = "read" /\ last_event' \in {"read", "read_nothing"}
\* _analyze_new_lines ran in this step
AnalysisDone == pc = "analyze" /\ pc' = "idle"
\* stat, open or read failed in this step
TailReadFailed == last_event' \in {"stat_error", "read_error"}

\* the batch result of the analysis that is about to run
PendingBatch == ParseLogFile(new_lines, config, default_wl).suspicious

-----------------------------------------------------------------------------
(* Properties *)

\* C1: a successful merge inserts an address that is not yet in the session
\* with exactly the batch's record; for an address already present the new
\* count is the old count plus the batch's count and the new threat score is
\* the larger of the old and the batch's score.
C1_MergeSumsCountAndKeepsMaxScore ==
    [][ (AnalysisDone /\ last_event' = "merged") =>
          \A ip \in DOMAIN PendingBatch :
             /\ ip \in DOMAIN all_suspicious'
             /\ IF ip \in DOMAIN all_suspicious
                THEN /\ all_suspicious'[ip].count =
                            all_suspicious[ip].count + PendingBatch[ip].count
                     /\ all_suspicious'[ip].threat_score >=
                            all_suspicious[ip].threat_score
                     /\ all_suspicious'[ip].threat_score >=
                            PendingBatch[ip].threat_score
                     /\ all_suspicious'[ip].threat_score \in
                            {all_suspicious[ip].threat_score,
                             PendingBatch[ip].threat_score}
                ELSE all_suspicious'[ip] = PendingBatch[ip] ]_vars

\* an address first merged with score 3 (one 403) and then with score 30
C1_Witness ==
    /\ last_event = "merged"
    /\ \E ip \in DOMAIN all_suspicious :
          /\ all_suspicious[ip].count = 2
          /\ "403" \in DOMAIN all_suspicious[ip].status_codes
          /\ all_suspicious[ip].threat_score = 30

\* C2: every record of the session has count equal to the sum of its
\* status_codes values and to the sum of its requests values.
C2_SessionRecordInvariant ==
    \A ip \in DOMAIN all_suspicious :
       /\ all_suspicious[ip].count = SumMap(all_suspicious[ip].status_codes)
       /\ all_suspicious[ip].count = SumMap(all_suspicious[ip].requests)

\* C3: within one batch, after any sequence of lines, every record's count
\* equals the sum of its status_codes values and the sum of its requests
\* values.
C3_BatchRecordInvariant ==
    \A ip \in DOMAIN ip_activity :
       /\ ip_activity[ip].count = SumMap(ip_activity[ip].status_codes)
       /\ ip_activity[ip].count = SumMap(ip_activity[ip].requests)

\* three lines ingested, one of them skipped, two counted for one address
\* under two different statuses
C3_Witness ==
    /\ Len(ingested) = 3
    /\ \E ip \in DOMAIN ip_activity :
          /\ ip_activity[ip].count = 2
          /\ Cardinality(DOMAIN ip_activity[ip].status_codes) = 2

\* the timestamps of the lines ingested so far that were accepted for ip
AcceptedDates(ip) ==
    { ingested[i].date : i \in
        { j \in DOMAIN ingested :
            /\ ingested[j].ip = ip
            /\ LineOutcome(ingested[j], b_config, b_whitelist) = "accepted" } }

\* C4: after any sequence of accepted lines for an address, in any order,
\* first_seen is the smallest and last_seen the largest ingested timestamp of
\* the address, so first_seen <= last_seen.
C4_FirstLastAreMinMax ==
    \A ip \in DOMAIN ip_activity :
       /\ AcceptedDates(ip) # {}
       /\ ip_activity[ip].first_seen \in AcceptedDates(ip)
       /\ ip_activity[ip].last_seen \in AcceptedDates(ip)
       /\ \A d \in AcceptedDates(ip) :
             ip_activity[ip].first_seen <= d /\ d <= ip_activity[ip].last_seen
       /\ ip_activity[ip].first_seen <= ip_activity[ip].last_seen

\* the earliest line of an address arrived last
C4_Witness ==
    /\ Len(ingested) >= 2
    /\ LET last == ingested[Len(ingested)]
       IN  /\ LineOutcome(last, b_config, b_whitelist) = "accepted"
           /\ ip_activity[last.ip].first_seen = last.date
           /\ ip_activity[last.ip].first_seen < ip_activity[last.ip].last_seen
           /\ ip_activity[last.ip].count >= 2

\* C5: when the monitor enters WATCHING its stored offset is the current
\* size of the log file, and the first batch holds none of the content the
\* file had before monitoring started.
C5_InitialOffsetIsFileSize ==
    /\ monitor = "WATCHING" => entry_offset = start_size
    /\ (pc = "analyze" /\ ~rotated /\ covered = << >>) =>
          last_position - Len(new_lines) >= start_size

\* C6: a cycle that finds the file smaller than the stored offset resets the
\* offset to 0 and goes on normally; the offset stays 0 until the next read,
\* which starts at the beginning of the file.
C6_RotationResetsOffset ==
    [][ /\ (StatDone /\ Len(file) < last_position) =>
              /\ last_position' = 0
              /\ rotation_pending'
              /\ pc' = (IF Len(file) > 0 THEN "read" ELSE "idle")
        /\ rotation_pending' => last_position' = 0
        /\ (ReadDone /\ rotation_pending) =>
              /\ new_lines' = file
              /\ last_position' = Len(file) ]_vars

\* after a first batch the file was rotated, and the read that followed the
\* detection started at the beginning of the new file
C6_Witness ==
    /\ rotated
    /\ covered # << >>
    /\ last_event = "read"
    /\ new_lines = file
    /\ last_position = Len(file)
    /\ last_position < Len(covered)

\* C7: a cycle that reads new lines stores the end-of-read position before
\* the analysis runs, and the analysis, failed or not, leaves it there.
C7_OffsetAdvancedBeforeAnalysis ==
    [][ /\ (ReadDone /\ last_event' = "read") =>
              /\ last_position' = Len(file)
              /\ last_position' > last_position
              /\ last_position' = last_position + Len(new_lines')
        /\ AnalysisDone => last_position' = last_position ]_vars

\* the analysis of a batch failed and the offset is at the end of that batch
C7_Witness ==
    /\ last_event = "analysis_failed"
    /\ all_suspicious = EmptyMap
    /\ last_position = Len(file)
    /\ last_position > 0

\* C8: as long as the file was never rotated, the batches handed to the
\* analysis, one after the other, are exactly the file from its start to the
\* stored offset: consecutive ranges, no line twice, none left out.
C8_BatchesAreConsecutiveRanges ==
    ~rotated =>
        /\ covered \o new_lines = SubSeq(file, 1, last_position)
        /\ last_position <= Len(file)

\* a second batch is about to be analysed and it is not the whole file
C8_Witness ==
    /\ ~rotated
    /\ pc = "analyze"
    /\ covered # << >>
    /\ new_lines # file
    /\ Len(covered) + Len(new_lines) = Len(file)

\* C9: a cycle that finds the size equal to the stored offset changes neither
\* the offset nor the session and starts no read and no analysis.
C9_EqualSizeIsNoOp ==
    [][ (StatDone /\ Len(file) = last_position) =>
          /\ last_position' = last_position
          /\ all_suspicious' = all_suspicious
          /\ pc' = "idle"
          /\ new_lines' = new_lines
          /\ covered' = covered
          /\ last_event' = "noop" ]_vars

\* a cycle with nothing new, after lines were read
C9_Witness ==
    /\ last_event = "noop"
    /\ last_position = Len(file)
    /\ last_position > 0

\* C10: when stat, open or read fails the cycle ends with the offset and the
\* session as they were, and every read starts at the stored offset, so the
\* next cycle reads the content the failed one did not.
C10_TailReadErrorKeepsOffset ==
    [][ /\ TailReadFailed =>
              /\ last_position' = last_position
              /\ all_suspicious' = all_suspicious
              /\ pc' = "idle"
              /\ new_lines' = << >>
        /\ ReadDone =>
              new_lines' = SubSeq(file, last_position + 1, Len(file)) ]_vars

\* a read failed and the unread lines are still ahead of the offset
C10_Witness ==
    /\ last_event = "read_error"
    /\ pc = "idle"
    /\ last_position < Len(file)


-----------------------------------------------------------------------------
(* Errors inside a cycle, one cycle at a time, the interrupt *)

\* how a step of the observer thread ends when something it called raised
HandlerErrorEvents ==
    {"stat_error", "read_error", "analysis_failed", "cycle_failed", "uncaught"}

\* C11: no error inside a watch cycle (a line that cannot be parsed, the
\* whitelist that cannot be loaded, a failing stat, read or analysis)
\* terminates the monitor: the step in which the error happens leaves the
\* monitor as it was with the observer thread back at the start of its loop,
\* ready for the next event, the thread never dies, and the monitor leaves
\* WATCHING by the interrupt only.
C11_ErrorsDoNotStopMonitor ==
    [][ /\ last_event' \in HandlerErrorEvents =>
              /\ monitor' = monitor
              /\ pc' = "idle"
              /\ active_cycles' = 0
              /\ last_event' # "uncaught"
        /\ pc' # "dead"
        /\ (monitor = "WATCHING" /\ monitor' # "WATCHING") =>
              last_event' = "interrupt" ]_vars

\* two equal lines were handed to the analysis in two batches, the analysis
\* of the first batch failed and the second batch was merged afterwards
C11_Witness ==
    /\ monitor = "WATCHING"
    /\ last_event = "merged"
    /\ ~rotated
    /\ covered = << Line(ExternalIp, 0, "403", LoginRequest),
                    Line(ExternalIp, 0, "403", LoginRequest) >>
    /\ ExternalIp \in DOMAIN all_suspicious
    /\ all_suspicious[ExternalIp].count = 1

\* C12: at most one _process_changes cycle is in progress at any time; an
\* event that arrives while a cycle runs waits for the cycle to end.
C12_OneCycleAtATime ==
    /\ active_cycles \in {0, 1}
    /\ active_cycles = 1 <=> pc \in {"read", "analyze"}

\* a line was appended while a cycle was in progress
C12_Witness ==
    /\ active_cycles = 1
    /\ pc = "analyze"
    /\ last_event = "append"
    /\ Len(file) > last_position

-----------------------------------------------------------------------------
(* The detection phase, the classifier and the scorer *)

\* the lines ingested so far that were accepted for ip
AcceptedIndices(ip) ==
    { j \in DOMAIN ingested :
        /\ ingested[j].ip = ip
        /\ LineOutcome(ingested[j], b_config, b_whitelist) = "accepted" }

Kinds(threats) == { threats[i].kind : i \in DOMAIN threats }

\* histogram.get(code, 0)
CountOf(histogram, code) ==
    IF code \in DOMAIN histogram THEN histogram[code] ELSE 0

\* sum of the weights of a set of kinds
RECURSIVE KindWeights(_)
KindWeights(kinds) ==
    IF kinds = {} THEN 0
    ELSE LET k == CHOOSE x \in kinds : TRUE
         IN  ThreatWeight(k) + KindWeights(kinds \ {k})

\* severity of the statuses of a record: 403 counts 3, 401 counts 2, 404 and
\* 400 count 1
Severity(status_codes) ==
    3 * CountOf(status_codes, "403") + 2 * CountOf(status_codes, "401")
    + CountOf(status_codes, "404") + CountOf(status_codes, "400")

\* C15: the score of a record of the result is the smaller of 100 and the sum
\* of the weights of the kinds among its final findings plus the severity of
\* its statuses; it lies in 0..100 and is exactly 100 when the sum exceeds 100.
C15_ScoreIsCappedSum ==
    c_pc # "new" =>
        LET raw == KindWeights(Kinds(c_scored.threats))
                   + Severity(c_scored.status_codes)
        IN  /\ c_scored.threat_score = IF raw > 100 THEN 100 ELSE raw
            /\ c_scored.threat_score \in 0..100

\* 34 lines with status 403 alone are worth 102
C15_Witness ==
    /\ c_pc = "scored"
    /\ CountOf(c_scored.status_codes, "403") = 34
    /\ c_scored.threats = << >>
    /\ c_scored.threat_score = 100

\* C16: a second application of calculate_threat_score to a record returns
\* the score the first one returned and leaves the findings as they were.
C16_ScoringTwiceChangesNothing ==
    c_pc = "rescored" =>
        /\ c_rescored.threat_score = c_scored.threat_score
        /\ c_rescored.threats = c_scored.threats

\* C17: DDoS is among the findings exactly when the first and the last line
\* differ in time and count / seconds * 60 is strictly above 500; never for
\* equal timestamps, never at a rate of exactly 500.
C17_DdosStrictlyAboveRate ==
    c_pc # "new" =>
        ("DDoS" \in Kinds(c_scored.threats) <=>
            /\ c_scored.first_seen # c_scored.last_seen
            /\ c_scored.count * 60
                   > DdosRequestThreshold * (c_scored.last_seen - c_scored.first_seen))

\* twelve lines of one address to /login within two minutes: six 401, five
\* 403, one 200
LoginScenario ==
    [i \in 1..12 |->
        Line(ExternalIp, 10 * (i - 1),
             IF i <= 6 THEN "401" ELSE IF i <= 11 THEN "403" ELSE "200",
             LoginRequest)]

\* C18: BRUTE_FORCE is among the findings exactly when a request signature
\* contains a brute-force path and the 401 and 403 lines together are 10 at
\* least, and the finding cites that total; the twelve /login lines with
\* eleven failures, threshold 10 and a window of one hour, yield the address
\* with BRUTE_FORCE citing 11 and a score of at least 15 plus the severity.
C18_BruteForceRule ==
    /\ c_pc # "new" =>
         LET failures == CountOf(c_scored.status_codes, "401")
                         + CountOf(c_scored.status_codes, "403")
         IN  /\ "BRUTE_FORCE" \in Kinds(c_scored.threats) <=>
                   /\ \E req \in DOMAIN c_scored.requests : HasBrutePath(req)
                   /\ failures >= 10
             /\ \A i \in DOMAIN c_scored.threats :
                   c_scored.threats[i].kind = "BRUTE_FORCE" =>
                       c_scored.threats[i].a = failures
    /\ LET result == ParseLogFile(LoginScenario,
                                  Config(10, FALSE, FALSE, NoWhitelistArg),
                                  NoDefaultFile)
       IN  /\ ~result.raised
           /\ DOMAIN result.suspicious = {ExternalIp}
           /\ result.suspicious[ExternalIp].threats
                  = << Threat("BRUTE_FORCE", 11, 0) >>
           /\ result.suspicious[ExternalIp].threat_score
                  >= 15 + Severity(result.suspicious[ExternalIp].status_codes)

\* the record of the twelve /login lines, classified and scored
C18_Witness ==
    /\ c_pc = "scored"
    /\ c_scored.count = 12
    /\ c_scored.last_seen - c_scored.first_seen = 120
    /\ DOMAIN c_scored.requests = {LoginRequest}
    /\ c_scored.threats = << Threat("BRUTE_FORCE", 11, 0) >>
    /\ c_scored.threat_score = 42

\* C19: PORT_SCAN is among the findings exactly when the 404 and 400 lines
\* together are 50 at least or the distinct request signatures are 20 at
\* least, and the finding reports both numbers.
C19_PortScanRule ==
    c_pc # "new" =>
        LET errors == CountOf(c_scored.status_codes, "404")
                      + CountOf(c_scored.status_codes, "400")
            paths == Cardinality(DOMAIN c_scored.requests)
        IN  /\ "PORT_SCAN" \in Kinds(c_scored.threats) <=>
                   (errors >= 50 \/ paths >= 20)
            /\ \A i \in DOMAIN c_scored.threats :
                   c_scored.threats[i].kind = "PORT_SCAN" =>
                       /\ c_scored.threats[i].a = errors
                       /\ c_scored.threats[i].b = paths

\* twenty signatures and no 404 or 400 line at all
C19_Witness ==
    /\ c_pc = "scored"
    /\ Cardinality(DOMAIN c_scored.requests) = 20
    /\ CountOf(c_scored.status_codes, "404") = 0
    /\ CountOf(c_scored.status_codes, "400") = 0
    /\ \E i \in DOMAIN c_scored.threats :
          c_scored.threats[i] = Threat("PORT_SCAN", 0, 20)

\* the place of a kind in the order the findings are appended
KindRank(kind) ==
    CASE kind = "BRUTE_FORCE" -> 1
      [] kind = "PORT_SCAN" -> 2
      [] kind = "SQL_INJECTION" -> 3
      [] kind = "DDoS" -> 4

\* C20: the findings of a record of the result hold each kind at most once,
\* in the order BRUTE_FORCE, PORT_SCAN, SQL_INJECTION, DDoS; SQL_INJECTION is
\* there once even when several signatures match a pattern.
C20_FindingsOrderedWithoutRepeats ==
    c_pc # "new" =>
        \A i, j \in DOMAIN c_scored.threats :
            i < j => KindRank(c_scored.threats[i].kind)
                         < KindRank(c_scored.threats[j].kind)

\* all four kinds at once, two signatures matching an SQL pattern
C20_Witness ==
    /\ c_pc = "scored"
    /\ {SqlRequest, SqlUnionRequest} \subseteq DOMAIN c_scored.requests
    /\ Len(c_scored.threats) = 4
    /\ Kinds(c_scored.threats)
           = {"BRUTE_FORCE", "PORT_SCAN", "SQL_INJECTION", "DDoS"}

-----------------------------------------------------------------------------
(* Lines that cannot be parsed, the order of the filters *)

\* a line in which the date, the status or the request cannot be found, or
\* whose date strptime cannot read
UnparseableLine(line) ==
    /\ line # EmptyLine
    /\ \/ line.date \in {NoDate, BadDate, BlankDate}
       \/ line.status = NoStatus
       \/ line.req = NoRequest

\* C21: a line that cannot be parsed is skipped: the turn of the loop that
\* consumes it changes no record and the loop goes on with the next line.
C21_UnparseableLineIsSkipped ==
    [][ ( /\ b_pc = "loop"
          /\ Len(ingested') = Len(ingested) + 1
          /\ UnparseableLine(ingested'[Len(ingested')]) )
        => ( ip_activity' = ip_activity /\ b_pc' = "loop" ) ]_vars

\* the filter that would skip the address of a line, were the line well formed
AddressFiltered(line) ==
    \/ b_config.ignore_whitelisted /\ IsWhitelisted(line.ip, b_whitelist)
    \/ b_config.ignore_internal /\ IsInternalIp(line.ip)

\* C22: the parse failure comes first: a line that cannot be parsed is skipped
\* with the parsing-error warning also when its address is whitelisted or
\* internal.
C22_ParseFailureBeforeAddressFilters ==
    \A i \in DOMAIN ingested :
        (UnparseableLine(ingested[i]) /\ AddressFiltered(ingested[i])) =>
            LineOutcome(ingested[i], b_config, b_whitelist) = "parse_error"

-----------------------------------------------------------------------------
(* The session over many cycles *)

\* C23: the score of an address in the session never decreases from one
\* state to the next and every score of the session lies in 0..100.
C23_SessionScoreNeverDecreases ==
    [][ /\ \A ip \in (DOMAIN all_suspicious) \cap (DOMAIN all_suspicious') :
              all_suspicious'[ip].threat_score >= all_suspicious[ip].threat_score
        /\ \A ip \in DOMAIN all_suspicious' :
              all_suspicious'[ip].threat_score \in 0..100 ]_vars

\* a batch scoring 30 was merged, then a batch of the same address scoring 3:
\* the session keeps 30
C23_Witness ==
    /\ last_event = "merged"
    /\ ~rotated
    /\ covered = << Line(ExternalIp, 1, "200", SqlRequest),
                    Line(ExternalIp, 0, "403", LoginRequest) >>
    /\ ExternalIp \in DOMAIN all_suspicious
    /\ all_suspicious[ExternalIp].count = 2
    /\ all_suspicious[ExternalIp].threat_score = 30

\* C24: an address that is in the session is in the session in every later
\* state: no step removes it, whether the cycle fails, detects a rotation
\* or does not detect the address again.
C24_SessionNeverForgets ==
    [][ DOMAIN all_suspicious \subseteq DOMAIN all_suspicious' ]_vars

\* two addresses in the session after a rotation and a cycle that failed
C24_Witness ==
    /\ DOMAIN all_suspicious = {ExternalIp, PrivateIp}
    /\ rotated
    /\ last_event = "analysis_failed"

\* C25: the findings of every entry of the session hold each kind at most
\* once, however many batches detected the kind.
C25_SessionFindingsWithoutRepeats ==
    \A ip \in DOMAIN all_suspicious :
        \A i, j \in DOMAIN all_suspicious[ip].threats :
            i # j => all_suspicious[ip].threats[i].kind
                         # all_suspicious[ip].threats[j].kind

\* SQL_INJECTION detected in two batches of one line each (the histograms of
\* the entry are those of the first batch) and present once
C25_Witness ==
    /\ last_event = "merged"
    /\ ~rotated
    /\ covered = << Line(ExternalIp, 1, "200", SqlRequest),
                    Line(ExternalIp, 1, "200", SqlRequest) >>
    /\ ExternalIp \in DOMAIN all_suspicious
    /\ all_suspicious[ExternalIp].count = 2
    /\ SumMap(all_suspicious[ExternalIp].status_codes) = 1
    /\ all_suspicious[ExternalIp].threats = << Threat("SQL_INJECTION", 0, 0) >>

\* the whitelist parse_log_file loads when the handler calls it
WatchWhitelist ==
    IF config.ignore_whitelisted
    THEN LoadWhitelist(config.whitelist, default_wl).entries
    ELSE {}

\* how many lines of a batch the loop accepts for an address
AcceptedLines(lines, ip) ==
    Cardinality({ i \in DOMAIN lines :
                    /\ lines[i].ip = ip
                    /\ LineOutcome(lines[i], config, WatchWhitelist) = "accepted" })

\* C26: the count of an address in the session is its cumulative volume:
\* every batch handed to the analysis once the address is in the session adds
\* exactly the accepted lines of the address in that batch.
C26_SessionCountIsVolume ==
    [][ AnalysisDone =>
           \A ip \in DOMAIN all_suspicious :
              /\ ip \in DOMAIN all_suspicious'
              /\ all_suspicious'[ip].count
                     = all_suspicious[ip].count + AcceptedLines(new_lines, ip) ]_vars

-----------------------------------------------------------------------------
(* The whitelist file, the zone suffix *)

\* the configuration the CLI builds when the file given with -w is missing
MissingWhitelistConfig == CliConfig(0, FALSE, FALSE, PathArg(FALSE, {}), NoDefaultFile)

\* C27: with the configured whitelist file missing the analysis runs with an
\* empty whitelist and the whitelist filter skips no line.
C27_MissingWhitelistIsEmpty ==
    (b_config = MissingWhitelistConfig /\ b_pc # "load") =>
        /\ b_whitelist = {}
        /\ \A i \in DOMAIN ingested :
              LineOutcome(ingested[i], b_config, b_whitelist) # "whitelisted"

\* C28: the zone suffix of the address token is stripped before the whitelist
\* check and before the internal-address check: a line is filtered as the
\* line with the stripped address would be, and an accepted line is recorded
\* under the full token.
C28_ZoneStrippedBeforeComparisons ==
    b_pc # "load" =>
        \A i \in DOMAIN ingested :
            LET line == ingested[i]
                stripped == [line EXCEPT !.ip = CleanIp(line.ip)]
                outcome == LineOutcome(line, b_config, b_whitelist)
            IN  /\ outcome = "accepted"
                       <=> LineOutcome(stripped, b_config, b_whitelist) = "accepted"
                /\ (outcome = "accepted" /\ b_pc # "raised")
                       => line.ip \in DOMAIN ip_activity

-----------------------------------------------------------------------------
(* The report and the last cycle, rotation *)

C30_ReplacedFileIsReadFromStart ==
    [][ (replaced /\ StatDone) => last_position' = 0 ]_vars


-----------------------------------------------------------------------------
(* The whitelist the command line hands to the monitor *)

\* the batch of the running analysis has no line that fails for another
\* reason than the whitelist argument
BatchParses ==
    \A i \in DOMAIN new_lines : new_lines[i].date # BlankDate

\* the command line loaded a whitelist with entries and filtering is on
CliWhitelistLoaded ==
    /\ config.ignore_whitelisted
    /\ config.whitelist.kind = "set"
    /\ config.whitelist.entries # {}

\* C31: in watch mode with whitelist filtering on and a non-empty whitelist
\* loaded by the command line, a cycle whose new lines hold an address outside
\* the whitelist that passes the window condition completes its analysis and
\* merges that address into the session
C31_AnalysisCompletesWithLoadedWhitelist ==
    ( /\ pc = "analyze"
      /\ CliWhitelistLoaded
      /\ BatchParses
      /\ \E i \in DOMAIN new_lines :
            /\ new_lines[i].ip = ExternalIp
            /\ new_lines[i].date >= 0
            /\ new_lines[i].req # NoRequest )
    => LET parsed == ParseLogFile(new_lines, config, default_wl)
       IN  /\ ~parsed.raised
           /\ ExternalIp \in DOMAIN parsed.suspicious


-----------------------------------------------------------------------------
(* The records of the per-address map *)

\* the outcomes of the loop body on the lines read so far
IngestedOutcomes ==
    { LineOutcome(ingested[i], b_config, b_whitelist) : i \in DOMAIN ingested }

\* C36: at the end of the aggregation every record of the per-address map has
\* count >= 1 and first_seen and last_seen set, whatever mix of valid,
\* malformed, whitelisted and internal lines the file held.
C36_RecordsAreNeverEmpty ==
    b_pc = "done" =>
        \A ip \in DOMAIN ip_activity :
            /\ ip_activity[ip].count >= 1
            /\ ip_activity[ip].first_seen # NoneTime
            /\ ip_activity[ip].last_seen # NoneTime

C36_Witness ==
    /\ b_pc = "done"
    /\ Len(ingested) = 3
    /\ "accepted" \in IngestedOutcomes
    /\ "parse_error" \in IngestedOutcomes
    /\ IngestedOutcomes \cap {"whitelisted", "internal"} # {}
    /\ ip_activity # EmptyMap


-----------------------------------------------------------------------------
(* What a merge leaves alone *)

\* existing is the start of merged
IsPrefix(existing, merged) ==
    /\ Len(existing) <= Len(merged)
    /\ SubSeq(merged, 1, Len(existing)) = existing

\* C32: merging a batch into an entry of the session leaves status_codes,
\* requests, first_seen, last_seen and the findings already present as they
\* were: count grows by the batch's count, threat_score becomes the larger
\* score, and only findings of kinds not yet present are added, so the detail
\* of a kind stays the one of the batch that reported it first.
C32_MergeKeepsFirstDetails ==
    [][ last_event' = "merged" =>
          \A ip \in (DOMAIN all_suspicious) \cap (DOMAIN suspicious_ips) :
             LET existing == all_suspicious[ip]
                 merged == all_suspicious'[ip]
                 data == suspicious_ips[ip]
             IN  /\ merged.status_codes = existing.status_codes
                 /\ merged.requests = existing.requests
                 /\ merged.first_seen = existing.first_seen
                 /\ merged.last_seen = existing.last_seen
                 /\ IsPrefix(existing.threats, merged.threats)
                 /\ \A i \in (Len(existing.threats) + 1)..Len(merged.threats) :
                       \A j \in DOMAIN existing.threats :
                          merged.threats[i].kind # existing.threats[j].kind
                 /\ merged.count = existing.count + data.count
                 /\ merged.threat_score
                        = Max(existing.threat_score, data.threat_score) ]_vars

\* the entry reported brute force with 10 failures, the batch with 34 and a
\* later last line: the merged entry cites 10 and keeps its last_seen
C32_Witness ==
    /\ last_event = "merged"
    /\ ExternalIp \in DOMAIN suspicious_ips
    /\ Threat("BRUTE_FORCE", 34, 0) \in
          { suspicious_ips[ExternalIp].threats[i] :
               i \in DOMAIN suspicious_ips[ExternalIp].threats }
    /\ suspicious_ips[ExternalIp].last_seen = 3600
    /\ all_suspicious[ExternalIp].threats = << Threat("BRUTE_FORCE", 10, 0) >>
    /\ all_suspicious[ExternalIp].last_seen = 0
    /\ all_suspicious[ExternalIp].count
          = 11 + suspicious_ips[ExternalIp].count


-----------------------------------------------------------------------------
(* The watched directory: partial lines, foreign events, the temporary file *)

\* C33: every log line is analysed as one whole line: a line appended in two
\* writes with a cycle between them is not handed to the analysis as two
\* fragments.
C33_LinesAreAnalysedWhole ==
    \A i \in DOMAIN new_lines :
        new_lines[i] \notin {HeadFragment, TailFragment}

\* the observer dispatched an event to on_modified in this step
EventDispatched ==
    /\ pc = "idle"
    /\ monitor = "WATCHING"
    /\ last_event' \in StatEvents \cup {"ignored", "stat_error", "uncaught"}

\* C34: a modification event whose path is not the monitored log file, the
\* monitor's own temporary file included, leaves the stored offset and the
\* session unchanged and starts no analysis.
C34_ForeignEventsAreIgnored ==
    [][ (EventDispatched /\ event_path' # log_path) =>
            /\ last_position' = last_position
            /\ all_suspicious' = all_suspicious
            /\ pc' = pc
            /\ active_cycles' = active_cycles
            /\ new_lines' = new_lines
            /\ current_size' = current_size ]_vars

\* an event for the temporary file while unread lines wait in the log file
\* and the session has an entry
C34_Witness ==
    /\ last_event = "ignored"
    /\ event_path = WithSuffixTmp(log_path)
    /\ event_path # log_path
    /\ pc = "idle"
    /\ Len(file) > last_position
    /\ all_suspicious # EmptyMap

\* C35: no watch cycle modifies or deletes the monitored log file, whatever
\* the log file is called: the temporary file is another file.
C35_CycleLeavesLogFile ==
    [][ (pc = "analyze" /\ pc' # "analyze") => file' = file ]_vars

=============================================================================
